---- MODULE Spec2Model ----
(***************************************************************************)
(* Model of mdc_scraper_v5.py: the pagination loop of                      *)
(* MiamiDadePropertyScraper.scrape_all_pages and the orchestrator loop of  *)
(* main().  The remote server is the environment: every fetch either fails *)
(* (fetch_page returns None) or yields a document, drawn from Documents.   *)
(***************************************************************************)
EXTENDS Integers, Sequences, FiniteSets, TLC

VARIABLES
    pc,                 \* position of the program: main / loop / build / post / done / crashed
    entry,              \* index of the catalog entry main() is working on
    params,             \* scraper.params
    current_page,       \* scrape_all_pages: current_page
    headers,            \* scrape_all_pages: headers (None or a list)
    consecutive_empty,  \* scrape_all_pages: consecutive_empty
    all_data,           \* scrape_all_pages: all_data
    reason,             \* which exit of the while loop was taken ("" while running)
    data,               \* main: data, the DataFrame scrape_all_pages returned
    warned,             \* "Warning: Header mismatch detected!" was printed in this run
    trace,              \* calls of session.get and time.sleep made by the current run
    files,              \* files written so far, as <<entry, kind>>
    report,             \* per entry, what main did with its frame: "persist" or "nodata"
    error               \* the exception that ended the process ("" if none)

vars == <<pc, entry, params, current_page, headers, consecutive_empty,
          all_data, reason, data, warned, trace, files, report, error>>

-----------------------------------------------------------------------------
(* Bounds of the model *)

\* max_pages passed by main() is 100; the model runs the same loop with a small limit
MaxPages == 4
\* largest number of body rows of one page
MaxRows == 2

-----------------------------------------------------------------------------
(* Program constants and configuration *)

max_consecutive_empty == 3

max_pages == MaxPages

default_params ==
    [FolioF |-> "", PrpTypeF |-> "", DistrictF |-> "", LotComF |-> "",
     LotF |-> "", LocationF |-> "", AddressF |-> "", ZoneF |-> "",
     LegalF |-> "", SurplusF |-> "", pageIndex |-> 1]

\* {**default_params, **base_params}
MergeParams(base_params) ==
    [k \in DOMAIN default_params |->
        IF k \in DOMAIN base_params THEN base_params[k] ELSE default_params[k]]

\* The catalog of main(), in iteration order ("exclude" before "include"),
\* cut down to two of its entries.
Catalog ==
    << [group |-> "exclude", filter |-> [PrpTypeF |-> "42"],
        filename |-> "AffordableHousingRentals"],
       [group |-> "include", filter |-> [PrpTypeF |-> "37", SurplusF |-> "22"],
        filename |-> "VacantLand"] >>

-----------------------------------------------------------------------------
(* The environment: documents the server can return *)

Row(w) == [j \in 1..w |-> "c"]

Widths == {2, 3}

HeaderChoices == { <<>>, <<"Folio", "Address">>, <<"Folio", "Address", "Zone">> }

RowChoices ==
    { <<>> } \cup { [i \in 1..n |-> Row(w)] : n \in 1..MaxRows, w \in Widths }

\* kind "notable":   no <table class="table"> in the document
\* kind "malformed": the table is there, its thead or tbody is not
\* kind "table":     the table with its thead cells and tbody rows
Documents ==
    { [kind |-> "notable", thead |-> <<>>, tbody |-> <<>>],
      [kind |-> "malformed", thead |-> <<>>, tbody |-> <<>>] }
    \cup { [kind |-> "table", thead |-> h, tbody |-> r] :
             h \in HeaderChoices, r \in RowChoices }

-----------------------------------------------------------------------------
(* Python values *)

None == [isNone |-> TRUE, v |-> <<>>]
Some(x) == [isNone |-> FALSE, v |-> x]

\* truth value of an Optional[list]: None and [] are falsy
Truthy(x) == ~x.isNone /\ Len(x.v) > 0

EmptyFrame == [columns |-> <<>>, rows |-> <<>>]

\* DataFrame.empty: any axis of length 0
IsEmpty(df) == Len(df.columns) = 0 \/ Len(df.rows) = 0

RECURSIVE MaxWidth(_)
MaxWidth(rows) ==
    IF rows = <<>> THEN 0
    ELSE LET m == MaxWidth(Tail(rows)) IN
         IF Len(Head(rows)) > m THEN Len(Head(rows)) ELSE m

-----------------------------------------------------------------------------
(* extract_table_data *)

extract_table_data(doc) ==
    IF doc.kind = "notable"
    THEN [raised |-> FALSE, headers |-> None, rows |-> None]
    ELSE IF doc.kind = "malformed"
    THEN [raised |-> TRUE, headers |-> None, rows |-> None]
    ELSE [raised |-> FALSE, headers |-> Some(doc.thead), rows |-> Some(doc.tbody)]

-----------------------------------------------------------------------------
(* fetch_page *)

\* what session.get / raise_for_status can raise: a connection failure, a
\* timeout, a non-2xx status
TransportErrors == {"ConnectionError", "Timeout", "HTTPError"}

\* faulty variant: only connection failures are caught
CaughtByFetchPage_ConnectionOnly(t) == t = "ConnectionError"

\* except requests.exceptions.RequestException: the three are subclasses of it
CaughtByFetchPage(t) == t \in TransportErrors

\* faulty variant: the request parameters are rebuilt from the defaults
ParamsAfterFetch_Rebuilt(p, page_index) == [default_params EXCEPT !.pageIndex = page_index]

\* self.params['pageIndex'] = page_index
ParamsAfterFetch(p, page_index) == [p EXCEPT !.pageIndex = page_index]

-----------------------------------------------------------------------------
(* Events of a run *)

GetEvent(page, res, n) == [ev |-> "get", page |-> page, res |-> res, n |-> n]
SleepEvent(page) == [ev |-> "sleep", page |-> page, res |-> "-", n |-> 0]

-----------------------------------------------------------------------------

Init ==
    /\ pc = "main"
    /\ entry = 1
    /\ params = default_params
    /\ current_page = 1
    /\ headers = None
    /\ consecutive_empty = 0
    /\ all_data = <<>>
    /\ reason = ""
    /\ data = EmptyFrame
    /\ warned = FALSE
    /\ trace = <<>>
    /\ files = {}
    /\ report = <<>>
    /\ error = ""

\* faulty variant: the accumulator outlives the run (it is not re-created
\* at the start of scrape_all_pages)
NewScraper_SharedAccumulator ==
    /\ pc = "main"
    /\ entry <= Len(Catalog)
    /\ params' = MergeParams(Catalog[entry].filter)
    /\ current_page' = 1
    /\ headers' = None
    /\ consecutive_empty' = 0
    /\ reason' = ""
    /\ warned' = FALSE
    /\ trace' = <<>>
    /\ data' = EmptyFrame
    /\ pc' = "loop"
    /\ UNCHANGED <<entry, all_data, files, report, error>>

\* main: scraper = MiamiDadePropertyScraper(condition['filter']) and the
\* start of scraper.scrape_all_pages(max_pages=100, delay=1.0).  The frame of
\* the previous entry is never read again; data holds no frame until this
\* run returns one.
NewScraper ==
    /\ pc = "main"
    /\ entry <= Len(Catalog)
    /\ params' = MergeParams(Catalog[entry].filter)
    /\ all_data' = <<>>
    /\ current_page' = 1
    /\ headers' = None
    /\ consecutive_empty' = 0
    /\ reason' = ""
    /\ warned' = FALSE
    /\ trace' = <<>>
    /\ data' = EmptyFrame
    /\ pc' = "loop"
    /\ UNCHANGED <<entry, files, report, error>>

-----------------------------------------------------------------------------
(* scrape_all_pages: the while loop *)

\* faulty variant: the threshold test is off by one (> for >=)
ThresholdReached_Strict(c) == c > max_consecutive_empty

\* consecutive_empty >= max_consecutive_empty
ThresholdReached(c) == c >= max_consecutive_empty

\* faulty variant: a failed fetch is not counted
CounterAfterFailure_NotCounted(c) == c

\* if not soup: consecutive_empty += 1
CounterAfterFailure(c) == c + 1

\* if not current_rows: consecutive_empty += 1
CounterAfterEmpty(c) == c + 1

\* faulty variant: the counter is not reset by a page with rows
CounterAfterRows_Kept(c) == c

\* consecutive_empty = 0 on a page with rows
CounterAfterRows(c) == 0

\* faulty variant: a failed fetch is retried on the same page index
PageAfterFailure_Retry(p) == p

\* current_page += 1 on each of the three paths that go round the loop
PageAfterFailure(p) == p + 1
PageAfterEmpty(p) == p + 1
PageAfterRows(p) == p + 1

\* faulty variant: the failure path sleeps too
EventsAfterFailure_Sleep(p) == <<[ev |-> "sleep", page |-> p, res |-> "-", n |-> 0]>>

\* what happens between this page and the next: `continue` on the failure and
\* on the empty path, time.sleep(delay) at the end of the loop body
EventsAfterFailure(p) == <<>>
EventsAfterEmpty(p) == <<>>
EventsAfterRows(p) == <<SleepEvent(p)>>

\* faulty variant: only a missing table counts as empty (current_rows is None)
NoRows_NoneOnly(rows) == rows.isNone

\* if not current_rows
NoRows(rows) == ~Truthy(rows)

\* headers after a page with rows: set once, from the first such page
HeadersAfterRows(h, current_headers) == IF h.isNone THEN current_headers ELSE h

\* elif current_headers != headers: the warning is printed
HeaderMismatch(h, current_headers) == ~h.isNone /\ current_headers # h

\* all_data.extend(current_rows)
Extend(acc, current_rows) == acc \o current_rows

\* while current_page <= max_pages: the condition is false
LoopExit ==
    /\ pc = "loop"
    /\ ~(current_page <= max_pages)
    /\ pc' = "build"
    /\ reason' = "PageLimitReached"
    /\ UNCHANGED <<entry, params, current_page, headers, consecutive_empty,
                   all_data, data, warned, trace, files, report, error>>

\* one iteration in which the request of fetch_page ends in the transport
\* error t: fetch_page returns None if it catches t
FetchFailed(t) ==
    /\ pc = "loop"
    /\ current_page <= max_pages
    /\ params' = ParamsAfterFetch(params, current_page)
    /\ IF ~CaughtByFetchPage(t)
       THEN /\ pc' = "crashed"
            /\ error' = t
            /\ trace' = Append(trace, GetEvent(current_page, "fail", 0))
            /\ UNCHANGED <<current_page, consecutive_empty, reason>>
       ELSE /\ consecutive_empty' = CounterAfterFailure(consecutive_empty)
            /\ IF ThresholdReached(consecutive_empty')
               THEN /\ pc' = "build"
                    /\ reason' = "TooManyFailures"
                    /\ trace' = Append(trace, GetEvent(current_page, "fail", 0))
                    /\ UNCHANGED current_page
               ELSE /\ current_page' = PageAfterFailure(current_page)
                    /\ trace' = Append(trace, GetEvent(current_page, "fail", 0))
                                    \o EventsAfterFailure(current_page)
                    /\ UNCHANGED <<pc, reason>>
            /\ UNCHANGED error
    /\ UNCHANGED <<entry, headers, all_data, data, warned, files, report>>

\* one iteration in which fetch_page returns the document doc
FetchOk(doc) ==
    /\ pc = "loop"
    /\ current_page <= max_pages
    /\ params' = ParamsAfterFetch(params, current_page)
    /\ LET ex  == extract_table_data(doc)
           got == Append(trace, GetEvent(current_page, doc.kind, Len(doc.tbody)))
       IN
       IF ex.raised
       THEN \* table.find('thead') is None: AttributeError leaves the loop
            /\ pc' = "crashed"
            /\ error' = "AttributeError"
            /\ trace' = got
            /\ UNCHANGED <<current_page, headers, consecutive_empty, all_data,
                           reason, warned>>
       ELSE IF NoRows(ex.rows)
       THEN /\ consecutive_empty' = CounterAfterEmpty(consecutive_empty)
            /\ IF ThresholdReached(consecutive_empty')
               THEN /\ pc' = "build"
                    /\ reason' = "TooManyEmptyPages"
                    /\ trace' = got
                    /\ UNCHANGED current_page
               ELSE /\ current_page' = PageAfterEmpty(current_page)
                    /\ trace' = got \o EventsAfterEmpty(current_page)
                    /\ UNCHANGED <<pc, reason>>
            /\ UNCHANGED <<headers, all_data, warned, error>>
       ELSE /\ consecutive_empty' = CounterAfterRows(consecutive_empty)
            /\ headers' = HeadersAfterRows(headers, ex.headers)
            /\ warned' = (warned \/ HeaderMismatch(headers, ex.headers))
            /\ all_data' = Extend(all_data, ex.rows.v)
            /\ IF Len(ex.rows.v) = 0
               THEN \* "Reached empty page. Stopping."
                    /\ pc' = "build"
                    /\ reason' = "ReachedEmptyPage"
                    /\ trace' = got
                    /\ UNCHANGED current_page
               ELSE /\ current_page' = PageAfterRows(current_page)
                    /\ trace' = got \o EventsAfterRows(current_page)
                    /\ UNCHANGED <<pc, reason>>
            /\ UNCHANGED error
    /\ UNCHANGED <<entry, data, files, report>>

-----------------------------------------------------------------------------
(* scrape_all_pages: the result *)

\* pd.DataFrame(all_data, columns=headers) raises ValueError ("n columns
\* passed, passed data had m columns") unless the widest row has as many
\* cells as there are column names; shorter rows are padded.
FrameRaises(rows, columns) == MaxWidth(rows) # Len(columns)

\* if headers and all_data
HasData(h, rows) == Truthy(h) /\ Len(rows) > 0

BuildDataFrame ==
    /\ pc = "build"
    /\ IF HasData(headers, all_data)
       THEN IF FrameRaises(all_data, headers.v)
            THEN /\ pc' = "crashed"
                 /\ error' = "ValueError"
                 /\ UNCHANGED data
            ELSE /\ pc' = "post"
                 /\ data' = [columns |-> headers.v, rows |-> all_data]
                 /\ UNCHANGED error
       ELSE /\ pc' = "post"
            /\ data' = EmptyFrame
            /\ UNCHANGED error
    /\ UNCHANGED <<entry, params, current_page, headers, consecutive_empty,
                   all_data, reason, warned, trace, files, report>>

-----------------------------------------------------------------------------
(* main: what is done with the result *)

\* faulty variant: the frame is saved whether it is empty or not
ShouldPersist_Always(df) == TRUE

\* if not data.empty
ShouldPersist(df) == ~IsEmpty(df)

\* data['source'] = condition['filename'][9:]
WithSource(df, label) ==
    [columns |-> Append(df.columns, "source"),
     rows |-> [i \in 1..Len(df.rows) |-> Append(df.rows[i], label)]]

HasColumn(df, name) == \E i \in 1..Len(df.columns) : df.columns[i] = name

\* save_checkpoint, the summary and the parameters sidecar; io is what the
\* file system does: "ok", or an OSError while writing the CSV or the sidecar
Persist(io) ==
    /\ pc = "post"
    /\ ShouldPersist(data)
    /\ data' = WithSource(data, Catalog[entry].filename)
    /\ report' = Append(report, "persist")
    /\ IF io = "csv_error"
       THEN /\ pc' = "crashed"
            /\ error' = "OSError"
            /\ UNCHANGED <<files, entry>>
       ELSE IF ~HasColumn(data', "Folio")
       THEN \* to_csv(columns=['Folio','source']) on a frame without Folio
            /\ pc' = "crashed"
            /\ error' = "KeyError"
            /\ files' = files \cup {<<entry, "csv">>}
            /\ UNCHANGED entry
       ELSE IF io = "json_error"
       THEN /\ pc' = "crashed"
            /\ error' = "OSError"
            /\ files' = files \cup {<<entry, "csv">>, <<entry, "provenance">>}
            /\ UNCHANGED entry
       ELSE /\ pc' = "main"
            /\ files' = files \cup {<<entry, "csv">>, <<entry, "provenance">>,
                                    <<entry, "json">>}
            /\ entry' = entry + 1
            /\ UNCHANGED error
    /\ UNCHANGED <<params, current_page, headers, consecutive_empty, all_data,
                   reason, warned, trace>>

\* else: print("No data was collected")
NoData ==
    /\ pc = "post"
    /\ ~ShouldPersist(data)
    /\ report' = Append(report, "nodata")
    /\ entry' = entry + 1
    /\ pc' = "main"
    /\ UNCHANGED <<params, current_page, headers, consecutive_empty, all_data,
                   reason, data, warned, trace, files, error>>

\* the for loops of main are exhausted
Finish ==
    /\ pc = "main"
    /\ entry > Len(Catalog)
    /\ pc' = "done"
    /\ UNCHANGED <<entry, params, current_page, headers, consecutive_empty,
                   all_data, reason, data, warned, trace, files, report, error>>

Next ==
    \/ NewScraper
    \/ LoopExit
    \/ \E t \in TransportErrors : FetchFailed(t)
    \/ \E doc \in Documents : FetchOk(doc)
    \/ BuildDataFrame
    \/ \E io \in {"ok", "csv_error", "json_error"} : Persist(io)
    \/ NoData
    \/ Finish

Spec == Init /\ [][Next]_vars

-----------------------------------------------------------------------------
(* Vocabulary of the properties *)

IsGet(e) == e.ev = "get"

Gets(tr) == SelectSeq(tr, IsGet)

\* the fetch failed / the page was fetched / it was fetched and had no row /
\* it was fetched and its extraction gave at least one row
Failed(e) == IsGet(e) /\ e.res = "fail"
Fetched(e) == IsGet(e) /\ e.res # "fail"
EmptyPage(e) == IsGet(e) /\ e.res \in {"notable", "table"} /\ e.n = 0
RowsPage(e) == IsGet(e) /\ e.res = "table" /\ e.n >= 1

RECURSIVE SumRows(_)
SumRows(tr) ==
    IF tr = <<>> THEN 0
    ELSE (IF RowsPage(Head(tr)) THEN Head(tr).n ELSE 0) + SumRows(Tail(tr))

Last(seq) == seq[Len(seq)]

\* scrape_all_pages has returned its frame to main
Returned == pc = "post"

\* the run is over: it returned, or building its frame raised
RunOver == pc = "post" \/ (pc = "crashed" /\ error = "ValueError")

-----------------------------------------------------------------------------
(* C1 *)

\* C1: the number of rows of the returned table is the sum of the row counts
\* of the fetched pages whose extraction gave at least one row.
C1_RowCount == Returned => Len(data.rows) = SumRows(trace)

-----------------------------------------------------------------------------
(* C2 *)

\* C2: the page index starts at 1 and goes up by exactly 1 on every iteration
\* that continues, whatever the branch: the pages fetched in a run are
\* 1, 2, ..., n in this order, and the next page to fetch is n + 1.
C2_PageSequence ==
    LET g == Gets(trace) IN
    /\ \A i \in 1..Len(g) : g[i].page = i
    /\ pc = "loop" => current_page = Len(g) + 1

\* three pages fetched, one through each branch, and the loop goes on
C2_Witness ==
    /\ pc = "loop"
    /\ \E i, j, k \in 1..Len(trace) :
          Failed(trace[i]) /\ EmptyPage(trace[j]) /\ RowsPage(trace[k])

-----------------------------------------------------------------------------
(* C3 *)

\* C3: when consecutive_empty reaches max_consecutive_empty the loop is left
\* in that same iteration, through the failure exit if the page that did it
\* was a failed fetch and through the empty-page exit if it was an empty
\* extraction, and nothing is fetched after that page.
C3_ThresholdStops ==
    consecutive_empty >= max_consecutive_empty =>
        /\ consecutive_empty = max_consecutive_empty
        /\ pc # "loop"
        /\ trace # <<>>
        /\ IsGet(Last(trace))
        /\ Failed(Last(trace)) => reason = "TooManyFailures"
        /\ ~Failed(Last(trace)) =>
              EmptyPage(Last(trace)) /\ reason = "TooManyEmptyPages"

\* the threshold was reached by an empty page after failures, and the run
\* has gone on to return
C3_Witness ==
    /\ consecutive_empty = max_consecutive_empty
    /\ reason = "TooManyEmptyPages"
    /\ Returned
    /\ \E i \in 1..Len(trace) : Failed(trace[i])

-----------------------------------------------------------------------------
(* C4 *)

AllPagesHaveRows == trace # <<>> /\ \A i \in 1..Len(trace) : IsGet(trace[i]) => RowsPage(trace[i])

\* C4: when every page 1..max_pages gives at least one row, the run fetches
\* exactly max_pages pages, leaves the loop because the page limit is
\* reached, and returns exactly the rows of those pages.
C4_AllPagesFull ==
    (RunOver /\ AllPagesHaveRows) =>
        /\ Returned
        /\ reason = "PageLimitReached"
        /\ Len(Gets(trace)) = max_pages
        /\ Len(data.rows) = SumRows(trace)

-----------------------------------------------------------------------------
(* C5 *)

\* C5: a later page whose header differs from the first one only prints the
\* mismatch warning: its rows are appended like any other page's (they count
\* in the running total), and the run still returns its table, whose header
\* is the first one seen.
C5_FirstHeaderWins ==
    (RunOver /\ warned) =>
        /\ Len(all_data) = SumRows(trace)
        /\ Returned
        /\ data.columns = headers.v

-----------------------------------------------------------------------------
(* C6 *)

\* C6: the inter-page delay follows every successful fetch, the empty ones
\* included: a page that was fetched and is followed by another fetch is
\* followed by the sleep first.
C6_DelayAfterEveryFetchedPage ==
    \A i \in 1..(Len(trace) - 1) : Fetched(trace[i]) => trace[i + 1].ev = "sleep"

-----------------------------------------------------------------------------
(* C7 *)

-----------------------------------------------------------------------------
(* C8 *)

\* the page handled by the step, when the step is an iteration of the loop
StepPage == trace'[Len(trace) + 1]

\* failed or empty pages i, i+1, i+2 of the run
BadWindow(g, i) == \A j \in i..(i + 2) : Failed(g[j]) \/ EmptyPage(g[j])

\* C8: a failed fetch and an empty extraction each add 1 to the one counter
\* consecutive_empty and neither resets it; only a page with rows sets it to
\* 0.  So max_consecutive_empty pages in a row that are failed or empty, in
\* any mixture, end the run through the threshold.
C8_SharedCounter ==
    /\ [][ (pc = "loop" /\ Len(trace') > Len(trace)) =>
              /\ (Failed(StepPage) \/ EmptyPage(StepPage)) =>
                     consecutive_empty' = consecutive_empty + 1
              /\ RowsPage(StepPage) => consecutive_empty' = 0 ]_vars
    /\ [] LET g == Gets(trace) IN
          \A i \in 1..(Len(g) - 2) :
              BadWindow(g, i) =>
                  /\ i + 2 = Len(g)
                  /\ pc # "loop"
                  /\ reason \in {"TooManyFailures", "TooManyEmptyPages"}

\* the threshold was reached by fail, empty, fail after a page with rows
C8_Witness ==
    LET g == Gets(trace) IN
    /\ Len(g) = 4
    /\ RowsPage(g[1]) /\ Failed(g[2]) /\ EmptyPage(g[3]) /\ Failed(g[4])
    /\ reason = "TooManyFailures"

-----------------------------------------------------------------------------
(* C9 *)

\* the while loop has been left in the current run
LoopLeft == trace # <<>> /\ pc # "loop"

\* C9: the run ends after at most max_pages fetches, and the loop is left in
\* one of three ways only: the page limit, too many failures, too many empty
\* pages.
C9_ThreeExits ==
    /\ Len(Gets(trace)) <= max_pages
    /\ LoopLeft =>
          reason \in {"PageLimitReached", "TooManyFailures", "TooManyEmptyPages"}

-----------------------------------------------------------------------------
(* C10 *)

FilesOf(e) == { f \in files : f[1] = e }

\* main has decided what to do with the frame of entry Len(report), and data
\* still holds that frame
Decided ==
    \/ pc = "main" /\ entry > 1
    \/ pc = "crashed" /\ error \in {"OSError", "KeyError"}

\* C10: main asks for an entry's table to be saved exactly when the table
\* has at least one row; an entry with an empty table writes no file and is
\* reported as no data, and the entries after it are run and saved as usual.
C10_PersistIffRows ==
    /\ Decided => (Last(report) = "persist" <=> Len(data.rows) >= 1)
    /\ \A e \in 1..Len(report) :
          /\ report[e] = "nodata" => FilesOf(e) = {}
          /\ (report[e] = "persist" /\ (e < Len(report) \/ pc # "crashed")) =>
                FilesOf(e) = {<<e, "csv">>, <<e, "provenance">>, <<e, "json">>}
    /\ pc = "done" => Len(report) = Len(Catalog)

\* the first entry gave no data and wrote nothing; the second was run and saved
C10_Witness ==
    /\ pc = "done"
    /\ report = <<"nodata", "persist">>
    /\ FilesOf(1) = {}
    /\ FilesOf(2) # {}

-----------------------------------------------------------------------------
(* C11 *)

\* C11: an entry that fails, in its run or while its table is saved, does not
\* stop main: the process is never ended by an exception while entries of
\* the catalog are still to be run.
C11_FailureDoesNotAbort == ~(pc = "crashed" /\ entry < Len(Catalog))

-----------------------------------------------------------------------------
(* C12 *)

\* C12: a fetched document from which nothing can be extracted, the table
\* missing or without its head or body, is handled like a page with zero
\* rows: it is counted in consecutive_empty and nothing is raised.
C12_ExtractionFailureIsEmpty ==
    (trace # <<>> /\ Last(trace).res \in {"notable", "malformed"}) =>
        /\ error = ""
        /\ consecutive_empty >= 1

-----------------------------------------------------------------------------
(* C13 *)

\* C13: fetch_page makes one request per call and turns every transport error
\* (connection failure, timeout, non-2xx status) into a None result: no such
\* error ever leaves it, each iteration of the loop issues exactly one
\* request, and no page index is requested a second time.
C13_FetchNeverRaises ==
    /\ [](error \notin TransportErrors)
    /\ [][ (pc = "loop" /\ current_page <= max_pages) =>
             Len(Gets(trace')) = Len(Gets(trace)) + 1 ]_vars
    /\ [] LET g == Gets(trace) IN
          \A i, j \in 1..Len(g) : i < j => g[i].page # g[j].page

\* two requests ended in a transport error, the run went on and got rows
C13_Witness ==
    LET g == Gets(trace) IN
    /\ Len(g) >= 3
    /\ Failed(g[1]) /\ Failed(g[2]) /\ RowsPage(g[3])
    /\ error = ""

-----------------------------------------------------------------------------
(* C14 *)

\* page k gave rows right after a glitch: one or two failed or empty pages
GlitchThenRows(g, k) ==
    /\ k >= 2
    /\ RowsPage(g[k])
    /\ Failed(g[k - 1]) \/ EmptyPage(g[k - 1])

\* C14: fewer than max_consecutive_empty failed or empty pages in a row do not
\* end the run: when the page after them gives rows, the loop goes on past
\* the glitch with the counter back at 0, and the rows of that page are in
\* the table the run returns.
C14_GlitchSurvived ==
    LET g == Gets(trace) IN
    \A k \in 1..Len(g) :
        GlitchThenRows(g, k) =>
            /\ (k = Len(g) /\ pc = "loop") => consecutive_empty = 0
            /\ RunOver => (Returned /\ Len(data.rows) >= g[k].n)

-----------------------------------------------------------------------------
(* C15 *)

\* pages 1..p gave rows and every page fetched after them was empty
RowsThenEmpty(g, p) ==
    /\ p >= 1
    /\ p + max_consecutive_empty <= max_pages
    /\ Len(g) > p
    /\ \A i \in 1..Len(g) : IF i <= p THEN RowsPage(g[i]) ELSE EmptyPage(g[i])

\* C15: when pages 1..p give rows and the pages after them are empty, the run
\* stops after p + max_consecutive_empty fetches through the empty-page
\* threshold, not the page limit, and returns exactly the rows of pages 1..p.
C15_EndOfData ==
    LET g == Gets(trace) IN
    \A p \in 1..Len(g) :
        (RunOver /\ RowsThenEmpty(g, p)) =>
            /\ Len(g) = p + max_consecutive_empty
            /\ reason = "TooManyEmptyPages"
            /\ Returned
            /\ Len(data.rows) = SumRows(trace)

-----------------------------------------------------------------------------
(* C16 *)

FilterFields == DOMAIN default_params \ {"pageIndex"}

\* a run of the entry is under way or has just returned
InRun == pc \in {"loop", "build", "post"}

\* C16: during a run fetch_page changes nothing of the request parameters
\* but pageIndex, which it sets to the page requested: every filter field
\* keeps the value it got when the scraper was built, up to the moment the
\* parameters are written to the sidecar.
C16_OnlyPageIndexChanges ==
    InRun =>
        /\ \A k \in FilterFields :
              params[k] = MergeParams(Catalog[entry].filter)[k]
        /\ LET g == Gets(trace) IN
           params.pageIndex = IF g = <<>> THEN 1 ELSE Last(g).page

\* the second entry's run returned rows after several fetches: its filter
\* values are still in place when the sidecar is about to be written
C16_Witness ==
    /\ pc = "post"
    /\ entry = 2
    /\ ~IsEmpty(data)
    /\ params.pageIndex >= 3
    /\ params.PrpTypeF = "37" /\ params.SurplusF = "22"

-----------------------------------------------------------------------------
(* C17 *)

\* the run of the current entry is about to issue its first request
FirstFetch == pc = "loop" /\ trace = <<>>

\* C17: the entries are run one after another in catalog order, each from a
\* fresh state: at an entry's first fetch the page index is 1, the counter 0,
\* the header unset and the accumulator empty, and by then every earlier
\* entry's run has ended and main has dealt with its table (saved it, files
\* written, or reported no data).
C17_FreshSequentialRuns ==
    /\ [](FirstFetch =>
            /\ current_page = 1
            /\ consecutive_empty = 0
            /\ headers = None
            /\ all_data = <<>>
            /\ params = MergeParams(Catalog[entry].filter))
    /\ [](InRun =>
            /\ entry \in 1..Len(Catalog)
            /\ Len(report) = entry - 1
            /\ \A e \in 1..(entry - 1) :
                  report[e] = "persist" =>
                      {<<e, "csv">>, <<e, "json">>} \subseteq files)
    /\ [][entry' = entry \/ (entry' = entry + 1 /\ pc = "post" /\ pc' = "main")]_vars

\* the first fetch of the second entry, after a first entry whose run
\* accumulated rows and whose table was saved
C17_Witness ==
    /\ FirstFetch
    /\ entry = 2
    /\ report = <<"persist">>
    /\ FilesOf(1) # {}

-----------------------------------------------------------------------------
(* C18 *)

\* a row was accumulated whose cell count is not the length of the header
WidthMismatch ==
    /\ ~headers.isNone
    /\ \E i \in 1..Len(all_data) : Len(all_data[i]) # Len(headers.v)

\* C18: a row whose cell count differs from the length of the header is not
\* fatal: the run that accumulated it still ends normally and returns its
\* table.
C18_WidthMismatchNotFatal ==
    (WidthMismatch /\ pc \notin {"loop", "build"}) => error # "ValueError"

-----------------------------------------------------------------------------
(* C19 *)

\* number of failed or empty pages at the end of g
RECURSIVE TrailingBad(_)
TrailingBad(g) ==
    IF g = <<>> THEN 0
    ELSE IF Failed(Last(g)) \/ EmptyPage(Last(g))
         THEN 1 + TrailingBad(SubSeq(g, 1, Len(g) - 1))
         ELSE 0

\* C19: while the program lives, consecutive_empty is between 0 and
\* max_consecutive_empty, it is below max_consecutive_empty whenever a page
\* is about to be fetched, and it is the number of pages fetched last, one
\* after the other, that were failed or empty.
C19_CounterInvariant ==
    pc # "crashed" =>
        /\ consecutive_empty \in 0..max_consecutive_empty
        /\ (pc = "loop" /\ current_page <= max_pages) =>
              consecutive_empty < max_consecutive_empty
        /\ consecutive_empty = TrailingBad(Gets(trace))

\* two bad pages after a page with rows, and the next fetch is due
C19_Witness ==
    LET g == Gets(trace) IN
    /\ pc = "loop"
    /\ current_page <= max_pages
    /\ consecutive_empty = 2
    /\ Len(g) = 3
    /\ RowsPage(g[1])

-----------------------------------------------------------------------------
(* C20 *)

\* C20: the exit "Reached empty page. Stopping." is never taken: a page with
\* zero rows always goes through the empty-page branch before it.
C20_EmptyPageStopUnreachable == reason # "ReachedEmptyPage"

\* a table with zero body rows was fetched and counted as an empty page
C20_Witness ==
    /\ trace # <<>>
    /\ Last(trace).res = "table"
    /\ Last(trace).n = 0
    /\ consecutive_empty >= 1

====
